---- MODULE Spec2Model ----
(***************************************************************************)
(* A model of PyCLIMenu (src/menu.py): the menu items, the menu model      *)
(* (BaseMenu), and the two selection loops Menu.display (callbacks) and    *)
(* OptionMenu.display (returned value).  The loops block on input(), so    *)
(* one loop iteration is one step of the model.                            *)
(***************************************************************************)
EXTENDS Integers, Sequences, FiniteSets

VARIABLES
    kind,          \* class of the menu object: "Menu" or "OptionMenu"
    name,          \* BaseMenu.name (None when no title)
    display_exit,  \* BaseMenu.display_exit
    menu_items,    \* BaseMenu.menu_items
    pc,            \* "idle" | "await" (blocked in input()) | "done" | "raised"
    exc,           \* the exception that left display(), "none" otherwise
    result,        \* what display() returned
    trace,         \* history of the calls display() made, in program order
    added,         \* history: identities of the items, in add_item order
    self_selection, \* BasicOptionMenu.selection (unset until assigned)
    ret            \* the last direct call on the menu object and what it gave

vars == <<kind, name, display_exit, menu_items, pc, exc, result, trace, added,
          self_selection, ret>>

(***************************************************************************)
(* Bounds of the model.                                                    *)
(***************************************************************************)
MaxItems == 3      \* longest menu explored
MaxReads == 3      \* most input() calls of one display()
MaxCount == 1001   \* longest menu printed directly

(***************************************************************************)
(* Values.                                                                 *)
(***************************************************************************)
None == "None"                      \* Python's None

default_exit_text == "Exit"
default_invalid_option_text == "Invalid option"

Names == {None, "Title"}

\* Constructor arguments the environment uses for items of each menu class.
\* A callback is named by what it does when called: "noop" returns, "append"
\* adds an item to the menu and returns, the others raise that exception.
MenuItemArgs ==
    { <<"A", "noop">>, <<"B", "IndexError">>,
      <<"C", "RuntimeError">>, <<"D", "append">> }

OptionItemArgs == { <<"Red", "R">>, <<"Blue", "B">>, <<"Nil", None>> }

ItemArgs == IF kind = "Menu" THEN MenuItemArgs ELSE OptionItemArgs

Absent == "<absent>"                \* an argument left out of a call
Unset == "<unset>"                  \* an attribute not assigned yet

NoItem == [display |-> "", payload |-> "", id |-> 0]

\* BaseMenuItem / MenuItem / OptionMenuItem: display plus callback or value.
\* id is the identity of the constructed object.
MenuItem(display, payload, id) ==
    [display |-> display, payload |-> payload, id |-> id]

\* MenuItem(display, callback) / OptionMenuItem(display, value) as a call:
\* a call without display is a TypeError, any display given is stored.
Construct(display, payload, id) ==
    IF display = Absent
    THEN [ok |-> FALSE, exc |-> "TypeError", item |-> NoItem]
    ELSE [ok |-> TRUE, exc |-> "none", item |-> MenuItem(display, payload, id)]

(***************************************************************************)
(* Text lines of the input channel, as sequences of characters.            *)
(***************************************************************************)
EOF == <<"<EOF>">>          \* input() on an exhausted source

Lines ==
    { <<"0">>, <<"1">>, <<"2">>, <<"9">>, <<"-", "1">>, <<"-", "0">>,
      <<"x">>, <<>>, EOF }

Digits == {"0", "1", "2", "3", "4", "5", "6", "7", "8", "9"}

DigitVal(c) ==
    CASE c = "0" -> 0 [] c = "1" -> 1 [] c = "2" -> 2 [] c = "3" -> 3
      [] c = "4" -> 4 [] c = "5" -> 5 [] c = "6" -> 6 [] c = "7" -> 7
      [] c = "8" -> 8 [] c = "9" -> 9

RECURSIVE DigitsVal(_)
DigitsVal(ds) ==
    IF ds = <<>> THEN 0
    ELSE 10 * DigitsVal(SubSeq(ds, 1, Len(ds) - 1)) + DigitVal(ds[Len(ds)])

AllDigits(ds) == Len(ds) >= 1 /\ \A k \in 1..Len(ds) : ds[k] \in Digits

\* int(text): an optional sign and at least one decimal digit, else ValueError.
ParseInt(line) ==
    IF AllDigits(line)
    THEN [ok |-> TRUE, val |-> DigitsVal(line)]
    ELSE IF Len(line) >= 2 /\ line[1] \in {"-", "+"} /\ AllDigits(Tail(line))
    THEN [ok |-> TRUE,
          val |-> IF line[1] = "-" THEN 0 - DigitsVal(Tail(line))
                  ELSE DigitsVal(Tail(line))]
    ELSE [ok |-> FALSE, val |-> 0]

(***************************************************************************)
(* Events of the trace.  All events are records of one shape.              *)
(***************************************************************************)
Ev(ev, fmt, num, pad, text, line) ==
    [ev |-> ev, fmt |-> fmt, num |-> num, pad |-> pad, text |-> text, line |-> line]

EvDisplay == Ev("display", "", 0, 0, "", <<>>)
EvBlank == Ev("print", "blank", 0, 0, "", <<>>)
EvTitle(t) == Ev("print", "title", 0, 0, t, <<>>)
EvItemLine(i, pad, text) == Ev("print", "item", i, pad, text, <<>>)
EvText(t) == Ev("print", "text", 0, 0, t, <<>>)
EvInput(n, line) == Ev("input", "prompt", n, 0, "", line)
EvGetSelection(s) == Ev("get_selection", "", s, 0, "", <<>>)
EvCallback(id, outcome) == Ev("callback", "", id, 0, outcome, <<>>)
EvReturn(id, value) == Ev("return", "", id, 0, value, <<>>)

(***************************************************************************)
(* BaseMenu.                                                               *)
(***************************************************************************)
add_item_prepend(items, item) == <<item>> \o items

\* list.append
add_item(items, item) == Append(items, item)

add_items_replace(items, new) == new

RECURSIVE add_items_reversed(_, _)
add_items_reversed(items, new) ==
    IF new = <<>> THEN items
    ELSE add_items_reversed(Append(items, new[Len(new)]), SubSeq(new, 1, Len(new) - 1))

\* for item in items: self.add_item(item)
RECURSIVE add_items(_, _)
add_items(items, new) ==
    IF new = <<>> THEN items
    ELSE add_items(add_item(items, Head(new)), Tail(new))

\* Python list indexing list[k]: 0-based, negative k counts from the end,
\* IndexError outside -len .. len-1.
PyIndex(list, k) ==
    IF 0 <= k /\ k < Len(list) THEN [ok |-> TRUE, item |-> list[k + 1]]
    ELSE IF k < 0 /\ 0 - Len(list) <= k
    THEN [ok |-> TRUE, item |-> list[Len(list) + k + 1]]
    ELSE [ok |-> FALSE, item |-> NoItem]

get_selection_zero_based(items, selection) == PyIndex(items, selection)

\* self.menu_items[selection - 1]; IndexError is raised again.
get_selection(items, selection) == PyIndex(items, selection - 1)

\* Number of decimal digits of a natural number.
RECURSIVE NumDigits(_)
NumDigits(n) == IF n < 10 THEN 1 ELSE 1 + NumDigits(n \div 10)

\* The n >= 1 where the double math.log(n, 10) = log(n)/log(10) falls just
\* below the exact integer value (n up to 2 * 10^6).
LogRoundsDown == {1000, 1000000}

\* math.floor(math.log(n, 10)) for n >= 1
FloorLog10(n) ==
    IF n \in LogRoundsDown THEN NumDigits(n) - 2 ELSE NumDigits(n) - 1

Max(a, b) == IF a >= b THEN a ELSE b

\* f"{i:{width}}: {text}": i right-aligned in width columns
FormatLine(i, width, text) == EvItemLine(i, Max(0, width - NumDigits(i)), text)

\* width = math.floor(math.log(len(self), 10)) + 1, for a menu that has items
width(items) == FloorLog10(Len(items)) + 1

PrintLines_exit_first(items, w) ==
    <<EvBlank>>
    \o (IF name # None THEN <<EvTitle(name)>> ELSE <<>>)
    \o (IF display_exit THEN <<FormatLine(0, w, default_exit_text)>> ELSE <<>>)
    \o [i \in 1..Len(items) |-> FormatLine(i, w, items[i].display)]

\* The print() calls of BaseMenu.print, in order, for a given width.
PrintLines(items, w) ==
    <<EvBlank>>
    \o (IF name # None THEN <<EvTitle(name)>> ELSE <<>>)
    \o [i \in 1..Len(items) |-> FormatLine(i, w, items[i].display)]
    \o (IF display_exit THEN <<FormatLine(0, w, default_exit_text)>> ELSE <<>>)

print_no_check(items) ==
    [ok |-> TRUE, exc |-> "none",
     evs |-> PrintLines(items, IF Len(items) = 0 THEN 1 ELSE width(items))]

\* BaseMenu.print: the lines written, or ValueError from math.log(0, 10),
\* which is evaluated before the first print().
print(items) ==
    IF Len(items) = 0
    THEN [ok |-> FALSE, exc |-> "ValueError", evs |-> <<>>]
    ELSE [ok |-> TRUE, exc |-> "none", evs |-> PrintLines(items, width(items))]

(***************************************************************************)
(* Initial state: a constructed Menu(name) or OptionMenu(name).            *)
(***************************************************************************)
NoRet == [op |-> "none", arg |-> 0, n |-> 0, ok |-> TRUE, item |-> NoItem]

Init ==
    /\ kind \in {"Menu", "OptionMenu"}
    /\ name \in Names
    /\ display_exit = (kind = "Menu")
    /\ menu_items = <<>>
    /\ pc = "idle"
    /\ exc = "none"
    /\ result = None
    /\ trace = <<>>
    /\ added = <<>>
    /\ self_selection = Unset
    /\ ret = NoRet

\* Items constructed from a sequence of argument pairs, with fresh identities.
NewItems(args) ==
    [j \in 1..Len(args) |-> MenuItem(args[j][1], args[j][2], Len(added) + j)]

Ids(items) == [j \in 1..Len(items) |-> items[j].id]

\* menu.add_item(MenuItem(display, payload))
AddItem(arg) ==
    /\ pc = "idle"
    /\ Len(menu_items) < MaxItems
    /\ LET item == MenuItem(arg[1], arg[2], Len(added) + 1)
       IN /\ menu_items' = add_item(menu_items, item)
          /\ added' = Append(added, item.id)
          /\ ret' = [op |-> "add_item", arg |-> 0, n |-> Len(menu_items),
                     ok |-> TRUE, item |-> item]
    /\ UNCHANGED <<kind, name, display_exit, pc, exc, result, trace, self_selection>>

ArgSeqs == {<<>>} \cup {<<a>> : a \in ItemArgs} \cup {<<a, b>> : a, b \in ItemArgs}

\* menu.add_items([MenuItem(...), ...])
AddItems(args) ==
    /\ pc = "idle"
    /\ Len(menu_items) + Len(args) <= MaxItems
    /\ LET new == NewItems(args)
       IN /\ menu_items' = add_items(menu_items, new)
          /\ added' = added \o Ids(new)
          /\ ret' = [op |-> "add_items", arg |-> Len(args), n |-> Len(menu_items),
                     ok |-> TRUE, item |-> NoItem]
    /\ UNCHANGED <<kind, name, display_exit, pc, exc, result, trace, self_selection>>

\* len(menu)
LenCall ==
    /\ pc = "idle"
    /\ ret' = [op |-> "len", arg |-> 0, n |-> Len(menu_items),
               ok |-> TRUE, item |-> NoItem]
    /\ UNCHANGED <<kind, name, display_exit, menu_items, pc, exc, result, trace, added,
                   self_selection>>

Selections == (0 - (MaxItems + 2)) .. (MaxItems + 2)

\* menu.get_selection(selection), called directly
GetSelection(selection) ==
    /\ pc = "idle"
    /\ LET r == get_selection(menu_items, selection)
       IN ret' = [op |-> "get_selection", arg |-> selection, n |-> Len(menu_items),
                  ok |-> r.ok, item |-> r.item]
    /\ UNCHANGED <<kind, name, display_exit, menu_items, pc, exc, result, trace, added,
                   self_selection>>

(***************************************************************************)
(* The selection loops.                                                    *)
(***************************************************************************)
NumReads == Cardinality({k \in DOMAIN trace : trace[k].ev = "input"})

\* item.callback(): what the application's callback does to the menu and
\* how it ends.  new: identities of the items it added.
Callback(cb, items) ==
    IF cb = "append"
    THEN LET item == MenuItem("N", "noop", Len(added) + 1)
         IN [items |-> add_item(items, item), outcome |-> "return", new |-> <<item.id>>]
    ELSE [items |-> items, outcome |-> IF cb = "noop" THEN "return" ELSE cb,
          new |-> <<>>]

\* What one pass through a loop body gives: the menu items afterwards, the
\* calls made, the exception leaving it, and the value returned from display().
Outcome(items, evs, e, returned, value, new) ==
    [items |-> items, evs |-> evs, exc |-> e, returned |-> returned,
     value |-> value, new |-> new]

ThenPrint_no_print(items, evs, new) == Outcome(items, evs, "none", FALSE, None, new)

\* self.print() closing an iteration
ThenPrint(items, evs, new) ==
    LET p == print(items)
    IN Outcome(items, evs \o p.evs, p.exc, FALSE, None, new)

ReadSelection_lenient(line) ==
    IF line = EOF THEN [exc |-> "EOFError", val |-> 0]
    ELSE [exc |-> "none", val |-> ParseInt(line).val]

\* selection := int(input(self.selection_text.format(len(self))))
ReadSelection(line) ==
    IF line = EOF THEN [exc |-> "EOFError", val |-> 0]
    ELSE LET p == ParseInt(line)
         IN IF p.ok THEN [exc |-> "none", val |-> p.val]
            ELSE [exc |-> "ValueError", val |-> 0]

LoopContinues_always(selection) == TRUE

LoopContinues_positive(selection) == selection > 0

\* while (selection := ...) != 0
LoopContinues(selection) == selection # 0

MenuBody_stale(items, selection) ==
    LET r == get_selection(items, selection)
    IN IF ~r.ok
       THEN ThenPrint(items,
                <<EvGetSelection(selection), EvText(default_invalid_option_text)>>,
                <<>>)
       ELSE LET c == Callback(r.item.payload, items)
                called == <<EvGetSelection(selection), EvCallback(r.item.id, c.outcome)>>
            IN IF c.outcome = "return" THEN ThenPrint(items, called, <<>>)
               ELSE IF c.outcome = "IndexError"
               THEN ThenPrint(items,
                        called \o <<EvText(default_invalid_option_text)>>, <<>>)
               ELSE Outcome(items, called, c.outcome, FALSE, None, <<>>)

\* Body of the loop of Menu.display
MenuBody(items, selection) ==
    LET r == get_selection(items, selection)
    IN IF ~r.ok
       THEN ThenPrint(items,
                <<EvGetSelection(selection), EvText(default_invalid_option_text)>>,
                <<>>)
       ELSE LET c == Callback(r.item.payload, items)
                called == <<EvGetSelection(selection), EvCallback(r.item.id, c.outcome)>>
            IN IF c.outcome = "return" THEN ThenPrint(c.items, called, c.new)
               ELSE IF c.outcome = "IndexError"
               THEN ThenPrint(c.items,
                        called \o <<EvText(default_invalid_option_text)>>, c.new)
               ELSE Outcome(c.items, called, c.outcome, FALSE, None, c.new)

OptionBody_no_return(items, selection) ==
    LET r == get_selection(items, selection)
    IN IF ~r.ok
       THEN ThenPrint(items,
                <<EvGetSelection(selection), EvText(default_invalid_option_text)>>,
                <<>>)
       ELSE ThenPrint(items, <<EvGetSelection(selection)>>, <<>>)

\* Body of the loop of OptionMenu.display
OptionBody(items, selection) ==
    LET r == get_selection(items, selection)
    IN IF ~r.ok
       THEN ThenPrint(items,
                <<EvGetSelection(selection), EvText(default_invalid_option_text)>>,
                <<>>)
       ELSE Outcome(items,
                <<EvGetSelection(selection), EvReturn(r.item.id, r.item.payload)>>,
                "none", TRUE, r.item.payload, <<>>)

\* display() up to its first input(): self.print()
DisplayStart ==
    /\ pc = "idle"
    /\ LET p == print(menu_items)
       IN /\ trace' = trace \o <<EvDisplay>> \o p.evs
          /\ pc' = IF p.ok THEN "await" ELSE "raised"
          /\ exc' = p.exc
    /\ ret' = [op |-> "display", arg |-> 0, n |-> Len(menu_items),
               ok |-> TRUE, item |-> NoItem]
    /\ UNCHANGED <<kind, name, display_exit, menu_items, result, added, self_selection>>

SelectionAfter_never(returned, value) == self_selection

\* self.selection = self.display() in BasicOptionMenu.__init__: assigned when
\* display() returns
SelectionAfter(returned, value) ==
    IF ret.op = "BasicOptionMenu" /\ returned THEN value ELSE self_selection

\* One input() of display() and everything up to the next input() or the
\* end of display(); b is what the loop body gives for the selection read.
Iteration(line, b) ==
    /\ pc = "await"
    /\ LET n == Len(menu_items)
           rd == ReadSelection(line)
       IN IF rd.exc # "none"
          THEN /\ trace' = Append(trace, EvInput(n, line))
               /\ pc' = "raised"
               /\ exc' = rd.exc
               /\ UNCHANGED <<menu_items, result, added, self_selection>>
          ELSE IF ~LoopContinues(rd.val)
          THEN /\ trace' = Append(trace, EvInput(n, line))
               /\ pc' = "done"
               /\ result' = None
               /\ self_selection' = SelectionAfter(TRUE, None)
               /\ UNCHANGED <<menu_items, exc, added>>
          ELSE /\ Len(b.items) <= MaxItems
               /\ trace' = Append(trace, EvInput(n, line)) \o b.evs
               /\ menu_items' = b.items
               /\ added' = added \o b.new
               /\ exc' = b.exc
               /\ result' = b.value
               /\ self_selection' = SelectionAfter(b.exc = "none" /\ b.returned, b.value)
               /\ pc' = IF b.exc # "none" THEN "raised"
                        ELSE IF b.returned THEN "done" ELSE "await"
    /\ UNCHANGED <<kind, name, display_exit, ret>>

\* Iteration, for at most MaxReads input() calls
DisplayStep(line, b) == NumReads < MaxReads /\ Iteration(line, b)

MenuDisplay == kind = "Menu" /\ DisplayStart

OptionDisplay == kind = "OptionMenu" /\ DisplayStart

MenuDisplayStep(line) ==
    /\ kind = "Menu"
    /\ DisplayStep(line, MenuBody(menu_items, ReadSelection(line).val))

OptionDisplayStep(line) ==
    /\ kind = "OptionMenu"
    /\ DisplayStep(line, OptionBody(menu_items, ReadSelection(line).val))

\* The entries of a dict in insertion order: pairs with distinct keys.
DictArgs ==
    {d \in ArgSeqs : \A i, j \in DOMAIN d : d[i][1] = d[j][1] => i = j}

DictItems_reversed(d) ==
    [j \in 1..Len(d) |->
        MenuItem(d[Len(d) + 1 - j][1], d[Len(d) + 1 - j][2], Len(added) + j)]

\* [MenuItem(k, v) for k, v in items.items()]
DictItems(d) == NewItems(d)

\* BasicMenu(name, d) / BasicOptionMenu(name, d) up to the first input() of
\* display(): the items are made and added, then display() starts.
Build(cls, d) ==
    /\ pc = "idle"
    /\ ret = NoRet
    /\ menu_items = <<>>
    /\ LET new == DictItems(d)
           items == add_items(menu_items, new)
           p == print(items)
       IN /\ menu_items' = items
          /\ added' = added \o Ids(new)
          /\ trace' = trace \o <<EvDisplay>> \o p.evs
          /\ pc' = IF p.ok THEN "await" ELSE "raised"
          /\ exc' = p.exc
          /\ ret' = [op |-> cls, arg |-> Len(d), n |-> Len(items),
                     ok |-> TRUE, item |-> NoItem]
    /\ UNCHANGED <<kind, name, display_exit, result, self_selection>>

BasicMenu(d) == kind = "Menu" /\ Build("BasicMenu", d)

BasicOptionMenu(d) == kind = "OptionMenu" /\ Build("BasicOptionMenu", d)

Next ==
    \/ \E d \in DictArgs : BasicMenu(d)
    \/ \E d \in DictArgs : BasicOptionMenu(d)
    \/ \E arg \in ItemArgs : AddItem(arg)
    \/ \E args \in ArgSeqs : AddItems(args)
    \/ LenCall
    \/ \E selection \in Selections : GetSelection(selection)
    \/ MenuDisplay
    \/ OptionDisplay
    \/ \E line \in Lines : MenuDisplayStep(line)
    \/ \E line \in Lines : OptionDisplayStep(line)

Spec == Init /\ [][Next]_vars

(***************************************************************************)
(* Menu.display with an input channel that eventually delivers the line    *)
(* "0": input() blocks until a line is there, and the user ends the        *)
(* session by typing 0.  The "0" is read whatever the number of reads so   *)
(* far; weak fairness on that read says the line does arrive.              *)
(***************************************************************************)
LiveInit == Init /\ kind = "Menu" /\ name = None

MenuExit == kind = "Menu" /\ Iteration(<<"0">>, MenuBody(menu_items, 0))

LiveNext ==
    \/ \E arg \in MenuItemArgs : AddItem(arg)
    \/ MenuDisplay
    \/ \E line \in Lines : MenuDisplayStep(line)
    \/ MenuExit

LiveSpec == LiveInit /\ [][LiveNext]_vars /\ WF_vars(MenuExit)

(***************************************************************************)
(* The menu model used directly: a BaseMenu(name, display_exit=...) that   *)
(* holds any number of items, printed by print(), and the item             *)
(* constructors called on their own.                                       *)
(***************************************************************************)
DisplayOf(i) == IF i % 3 = 1 THEN "A" ELSE IF i % 3 = 2 THEN "B" ELSE "C"

RenderInit ==
    /\ kind = "BaseMenu"
    /\ name \in Names
    /\ display_exit \in BOOLEAN
    /\ \E n \in 0..MaxCount :
          /\ menu_items = [i \in 1..n |-> MenuItem(DisplayOf(i), None, i)]
          /\ added = [i \in 1..n |-> i]
    /\ pc = "idle"
    /\ exc = "none"
    /\ result = None
    /\ trace = <<>>
    /\ self_selection = Unset
    /\ ret = NoRet

\* menu.print(), called directly (once)
PrintCall ==
    /\ pc = "idle"
    /\ trace = <<>>
    /\ ret.op # "print"
    /\ LET p == print(menu_items)
       IN /\ trace' = p.evs
          /\ ret' = [op |-> "print", arg |-> 0, n |-> Len(menu_items),
                     ok |-> p.ok, item |-> NoItem]
    /\ UNCHANGED <<kind, name, display_exit, menu_items, pc, exc, result, added, self_selection>>

DisplayArgs == {"A", None, Absent}

\* MenuItem(display, callback), OptionMenuItem(display, value) called on
\* their own; cls names the class.
ConstructCall(cls, display, payload) ==
    /\ pc = "idle"
    /\ trace = <<>>
    /\ Len(menu_items) <= MaxItems
    /\ LET c == Construct(display, payload, Len(added) + 1)
       IN ret' = [op |-> cls, arg |-> 0, n |-> Len(menu_items),
                  ok |-> c.ok, item |-> c.item]
    /\ UNCHANGED <<kind, name, display_exit, menu_items, pc, exc, result, trace, added,
                   self_selection>>

RenderNext ==
    \/ PrintCall
    \/ \E display \in DisplayArgs : ConstructCall("MenuItem", display, "noop")
    \/ \E display \in DisplayArgs : ConstructCall("OptionMenuItem", display, "R")

RenderSpec == RenderInit /\ [][RenderNext]_vars

(***************************************************************************)
(* Reading the trace.                                                      *)
(***************************************************************************)
IsInput(e) == e.ev = "input"
IsCallback(e) == e.ev = "callback"

Reads == SelectSeq(trace, IsInput)          \* the input() calls, in order
Calls == SelectSeq(trace, IsCallback)       \* the callbacks invoked, in order

HasRead == Reads # <<>>
LastPos == CHOOSE k \in DOMAIN trace :
               IsInput(trace[k]) /\ \A j \in DOMAIN trace : IsInput(trace[j]) => j <= k
LastRead == trace[LastPos]
\* what display() did after its latest input()
AfterRead == SubSeq(trace, LastPos + 1, Len(trace))

\* The integer typed on an input line, where it is one.
IsInt(line) == line # EOF /\ ParseInt(line).ok
IntOf(line) == ParseInt(line).val

InRange(e) == IsInt(e.line) /\ IntOf(e.line) \in 1..e.num
IsZero(e) == IsInt(e.line) /\ IntOf(e.line) = 0
OutOfRange(e) ==
    IsInt(e.line) /\ IntOf(e.line) # 0 /\ (IntOf(e.line) < 1 \/ IntOf(e.line) > e.num)

NonZero(e) == ~IsZero(e)

InvalidText == EvText(default_invalid_option_text)

(***************************************************************************)
(* C1: in Menu.display, when every input so far is an integer in           *)
(* [1, count()] or the final 0, the callbacks invoked are exactly those of *)
(* the selected items, once per input and in input order; display() has    *)
(* returned exactly when the latest input is 0, nothing follows that 0,    *)
(* and no input is read after a 0.                                         *)
(***************************************************************************)
C1_ActionLoopRunsSelectedInOrder ==
    (kind = "Menu" /\ \A k \in DOMAIN Reads : InRange(Reads[k]) \/ IsZero(Reads[k]))
    => LET picked == SelectSeq(Reads, NonZero)
       IN /\ Len(Calls) = Len(picked)
          /\ \A k \in DOMAIN picked : Calls[k].num = added[IntOf(picked[k].line)]
          /\ \A k \in DOMAIN Reads : IsZero(Reads[k]) => k = Len(Reads)
          /\ pc = "done" <=> (HasRead /\ IsZero(LastRead))
          /\ pc = "done" => AfterRead = <<>>

C1_Witness ==
    /\ kind = "Menu"
    /\ pc = "done"
    /\ Len(menu_items) = 2
    /\ [k \in DOMAIN Reads |-> Reads[k].line] = << <<"1">>, <<"1">>, <<"0">> >>
    /\ [k \in DOMAIN Calls |-> Calls[k].num] = <<1, 1>>

(***************************************************************************)
(* C2: in OptionMenu.display, an input that is an integer in [1, count()]  *)
(* makes display() return the value of that item at once: after the input  *)
(* there is the lookup and the return and nothing else, and no earlier     *)
(* input was in range.                                                     *)
(***************************************************************************)
C2_ValueLoopReturnsFirstValid ==
    (kind = "OptionMenu" /\ HasRead)
    => /\ \A k \in DOMAIN Reads : InRange(Reads[k]) => k = Len(Reads)
       /\ InRange(LastRead) =>
            LET s == IntOf(LastRead.line)
            IN /\ pc = "done"
               /\ exc = "none"
               /\ result = menu_items[s].payload
               /\ menu_items[s].id = added[s]
               /\ AfterRead = <<EvGetSelection(s), EvReturn(added[s], result)>>

C2_Witness ==
    /\ kind = "OptionMenu"
    /\ pc = "done"
    /\ Len(Reads) = 2
    /\ OutOfRange(Reads[1])
    /\ Reads[2].line = <<"2">>
    /\ result = "B"

(***************************************************************************)
(* C3: in both loops every input integer s with s # 0 and (s < 1 or        *)
(* s > count()) writes the invalid-option message, invokes no callback,    *)
(* returns no value, and the menu is printed again before the next prompt. *)
(***************************************************************************)
C3_OutOfRangeReprompts ==
    (HasRead /\ OutOfRange(LastRead))
    => /\ pc = "await"
       /\ AfterRead = <<EvGetSelection(IntOf(LastRead.line)), InvalidText>>
                      \o print(menu_items).evs

(***************************************************************************)
(* C4: get_selection raises IndexError for every selection < 1 or          *)
(* > count(), selection 0 and the negative selections included.            *)
(***************************************************************************)
C4_ResolveRejectsOutOfRange ==
    (ret.op = "get_selection" /\ (ret.arg < 1 \/ ret.arg > ret.n)) => ~ret.ok

(***************************************************************************)
(* C5: an exception raised by the selected item's callback leaves          *)
(* Menu.display, whatever its kind: the loop ends with that exception, no  *)
(* invalid-option message is written for it and nothing is printed after.  *)
(***************************************************************************)
C5_CallbackExceptionPropagates ==
    (kind = "Menu" /\ HasRead /\ AfterRead # <<>>
        /\ \E k \in DOMAIN AfterRead :
              IsCallback(AfterRead[k]) /\ AfterRead[k].text # "return")
    => /\ pc = "raised"
       /\ exc = AfterRead[Len(AfterRead)].text
       /\ IsCallback(AfterRead[Len(AfterRead)])

(***************************************************************************)
(* C6: when OptionMenu.display ends by the input 0, what it returns        *)
(* differs from what it returns when any item of the menu is selected,     *)
(* an item storing None included.                                          *)
(***************************************************************************)
C6_NoSelectionDistinguishable ==
    (kind = "OptionMenu" /\ pc = "done" /\ HasRead /\ IsZero(LastRead))
    => \A i \in DOMAIN menu_items : result # menu_items[i].payload

(***************************************************************************)
(* C7: in both loops the input 0 ends display() directly: no lookup, no    *)
(* callback, no returned item value, no invalid-option message and no      *)
(* further print, whether or not the exit line is shown.                   *)
(***************************************************************************)
C7_ZeroExitsDirectly ==
    (HasRead /\ IsZero(LastRead))
    => /\ pc = "done"
       /\ exc = "none"
       /\ AfterRead = <<>>

C7_Witness ==
    /\ kind = "OptionMenu"
    /\ ~display_exit
    /\ Len(menu_items) >= 1
    /\ HasRead
    /\ IsZero(LastRead)
    /\ pc = "done"

(***************************************************************************)
(* C8: in both loops an input line that is no integer, or the end of the   *)
(* input, ends display() with the error (ValueError, EOFError): no         *)
(* invalid-option message, no callback, no print and no prompt follow.     *)
(***************************************************************************)
C8_BadInputIsFatal ==
    (HasRead /\ ~IsInt(LastRead.line))
    => /\ pc = "raised"
       /\ exc = IF LastRead.line = EOF THEN "EOFError" ELSE "ValueError"
       /\ AfterRead = <<>>

C8_Witness ==
    /\ pc = "raised"
    /\ exc = "ValueError"
    /\ HasRead
    /\ LastRead.line = <<"x">>
    /\ Len(Reads) >= 2

(***************************************************************************)
(* C9: get_selection(i) gives the i-th item in insertion order for every   *)
(* i in [1, count()].                                                      *)
(***************************************************************************)
C9_ResolveGivesIthAdded ==
    /\ \A i \in 1..Len(menu_items) :
          /\ get_selection(menu_items, i).ok
          /\ get_selection(menu_items, i).item.id = added[i]
    /\ (ret.op = "get_selection" /\ ret.arg \in 1..ret.n)
          => (ret.ok /\ ret.item.id = added[ret.arg])

C9_Witness ==
    /\ ret.op = "get_selection"
    /\ ret.n = 3
    /\ ret.arg = 2
    /\ ret.ok
    /\ ret.item.id = 2

(***************************************************************************)
(* C10: add_items(seq) grows the menu by len(seq), keeps the items already *)
(* there at their positions and puts the new ones after them in the order  *)
(* given, as add_item on each element in turn does.                        *)
(***************************************************************************)
C10_AddItemsAppendsInOrder ==
    [][\A args \in ArgSeqs :
          AddItems(args) =>
             /\ Len(menu_items') = Len(menu_items) + Len(args)
             /\ SubSeq(menu_items', 1, Len(menu_items)) = menu_items
             /\ \A j \in 1..Len(args) :
                   /\ menu_items'[Len(menu_items) + j].display = args[j][1]
                   /\ menu_items'[Len(menu_items) + j].payload = args[j][2]
                   /\ menu_items'[Len(menu_items) + j].id = added'[Len(menu_items) + j]]_vars

C10_Witness ==
    /\ ret.op = "add_items"
    /\ ret.n = 1
    /\ ret.arg = 2
    /\ Len(menu_items) = 3
    /\ menu_items[2].display # menu_items[3].display

(***************************************************************************)
(* C11: display() on a menu without items fails in print() before anything *)
(* is written (ValueError from the width computation), so the loop on an   *)
(* empty menu ends before any input is read.                               *)
(***************************************************************************)
Started == pc # "idle"          \* display() has been called
StartCount == ret.n             \* count() when display() was called

C11_EmptyMenuFailsFast ==
    (Started /\ StartCount = 0)
    => /\ pc = "raised"
       /\ exc = "ValueError"
       /\ trace = <<EvDisplay>>
       /\ menu_items = <<>>

C11_Witness ==
    /\ pc = "raised"
    /\ menu_items = <<>>
    /\ trace = <<EvDisplay>>
    /\ kind = "OptionMenu"

(***************************************************************************)
(* C12: print() pads every index to the number of decimal digits of        *)
(* count(): width 1 up to 9 items, 2 from 10, and k+1 at every 10^k.       *)
(***************************************************************************)
C12_WidthIsDigitCount ==
    (ret.op = "print" /\ ret.ok)
    => \A k \in DOMAIN trace :
          trace[k].fmt = "item"
          => trace[k].pad + NumDigits(trace[k].num) = NumDigits(Len(menu_items))

(***************************************************************************)
(* C14: MenuItem / OptionMenuItem called with display absent or None       *)
(* fails and yields no item.                                               *)
(***************************************************************************)
C14_NullDisplayRejected ==
    (ret.op \in {"MenuItem", "OptionMenuItem"} /\ ret.ok)
    => ret.item.display \notin {None, Absent}

(***************************************************************************)
(* C13: print() writes the blank separator, then the title exactly when    *)
(* there is one, then one line per item with index i and the display of    *)
(* the i-th added item for i = 1..count(), then the exit line (index 0,    *)
(* exit text) exactly when display_exit is set, and nothing else.          *)
(***************************************************************************)
C13_RenderOrder ==
    (ret.op = "print" /\ ret.ok)
    => LET n == Len(menu_items)
           t == IF name # None THEN 1 ELSE 0
           x == IF display_exit THEN 1 ELSE 0
       IN /\ Len(trace) = 1 + t + n + x
          /\ \A k \in DOMAIN trace : trace[k].ev = "print"
          /\ trace[1].fmt = "blank"
          /\ t = 1 => (trace[2].fmt = "title" /\ trace[2].text = name)
          /\ \A i \in 1..n :
                /\ trace[1 + t + i].fmt = "item"
                /\ trace[1 + t + i].num = i
                /\ trace[1 + t + i].text = menu_items[i].display
                /\ menu_items[i].id = added[i]
          /\ x = 1 => /\ trace[Len(trace)].fmt = "item"
                      /\ trace[Len(trace)].num = 0
                      /\ trace[Len(trace)].text = default_exit_text

C13_Witness ==
    /\ ret.op = "print"
    /\ ret.ok
    /\ name # None
    /\ display_exit
    /\ Len(menu_items) = 3
    /\ Len(trace) = 6

(***************************************************************************)
(* C15: BasicMenu / BasicOptionMenu given n label/payload pairs make a     *)
(* menu of exactly those n items in order and run display(): BasicMenu has *)
(* returned only when 0 was read, and BasicOptionMenu.selection is set     *)
(* exactly when display() has returned, to the value it returned.          *)
(***************************************************************************)
Built == ret.op \in {"BasicMenu", "BasicOptionMenu"}

C15_BuildersPopulateAndRun ==
    /\ [][\A d \in DictArgs :
            (BasicMenu(d) \/ BasicOptionMenu(d))
            => /\ Len(menu_items') = Len(d)
               /\ \A i \in 1..Len(d) :
                     /\ menu_items'[i].display = d[i][1]
                     /\ menu_items'[i].payload = d[i][2]
               /\ trace'[1] = EvDisplay]_vars
    /\ [](Built =>
            /\ Started
            /\ (ret.op = "BasicMenu" /\ pc = "done") => (HasRead /\ IsZero(LastRead))
            /\ ret.op = "BasicOptionMenu" =>
                  /\ self_selection # Unset <=> pc = "done"
                  /\ pc = "done" => self_selection = result)

C15_Witness ==
    /\ ret.op = "BasicOptionMenu"
    /\ pc = "done"
    /\ Len(menu_items) = 2
    /\ self_selection = "B"
    /\ Len(Reads) = 2

(***************************************************************************)
(* C16: in both loops prints of the menu and input() calls alternate,      *)
(* starting with a print: between the start of display() or an input() and *)
(* the next input() the menu is printed exactly once, and the lookup, the  *)
(* callback and the invalid-option message of that iteration come before   *)
(* that print.  After the input that ends display() nothing is printed.    *)
(***************************************************************************)
IsRender(e) == e.ev = "print" /\ e.fmt = "blank"     \* a print of the menu starts
InputPoss == {k \in DOMAIN trace : IsInput(trace[k])}
\* the input() before position p, or the start of display()
Before(p) ==
    CHOOSE q \in {1} \cup InputPoss :
        q < p /\ \A k \in {1} \cup InputPoss : k < p => k <= q
RendersIn(q, p) == {k \in (q + 1)..(p - 1) : IsRender(trace[k])}
\* the positions a segment ends at: every input(), and the input() awaited
SegmentEnds == InputPoss \cup (IF pc = "await" THEN {Len(trace) + 1} ELSE {})

C16_RenderReadAlternate ==
    (Started /\ StartCount > 0)
    => /\ trace[1] = EvDisplay
       /\ IsRender(trace[2])
       /\ \A p \in SegmentEnds :
             LET q == Before(p)
             IN /\ Cardinality(RendersIn(q, p)) = 1
                /\ \A r \in RendersIn(q, p) : \A k \in (q + 1)..(p - 1) :
                      /\ k < r => (trace[k].ev \in {"get_selection", "callback"}
                                   \/ trace[k] = InvalidText)
                      /\ k > r => (trace[k].ev = "print"
                                   /\ trace[k].fmt \in {"title", "item"})
       /\ pc # "await" => RendersIn(Before(Len(trace) + 1), Len(trace) + 1) = {}

C16_Witness ==
    /\ kind = "Menu"
    /\ pc = "await"
    /\ Len(Reads) = 2
    /\ OutOfRange(Reads[1])
    /\ Len(Calls) = 1
    /\ \E k \in DOMAIN trace : trace[k] = InvalidText
    /\ Cardinality({k \in DOMAIN trace : IsRender(trace[k])}) = 3

(***************************************************************************)
(* C17: Menu.display reads the menu anew in every iteration: once a        *)
(* callback has added items, the next print lists them, the next prompt    *)
(* shows the new count(), and an input equal to a newly valid index        *)
(* invokes the added item's callback instead of the invalid-option message.*)
(***************************************************************************)
\* callbacks that added an item, before position p
AppendsBefore(p) ==
    Cardinality({k \in 1..(p - 1) :
        /\ IsCallback(trace[k])
        /\ trace[k].text = "return"
        /\ menu_items[trace[k].num].payload = "append"})
CountAt(p) == StartCount + AppendsBefore(p)
ItemLines(q, p) == {k \in (q + 1)..(p - 1) : trace[k].fmt = "item" /\ trace[k].num >= 1}

C17_LoopSeesAddedItems ==
    (kind = "Menu" /\ Started /\ StartCount > 0)
    => /\ Len(menu_items) = CountAt(Len(trace) + 1)
       /\ \A p \in SegmentEnds :
             LET q == Before(p)
             IN /\ Cardinality(ItemLines(q, p)) = CountAt(p)
                /\ \A i \in 1..CountAt(p) : \E k \in ItemLines(q, p) :
                      /\ trace[k].num = i
                      /\ trace[k].text = menu_items[i].display
                      /\ menu_items[i].id = added[i]
                /\ p \in InputPoss =>
                      /\ trace[p].num = CountAt(p)
                      /\ (IsInt(trace[p].line)
                            /\ IntOf(trace[p].line) \in (StartCount + 1)..CountAt(p))
                         => /\ trace[p + 1] = EvGetSelection(IntOf(trace[p].line))
                            /\ trace[p + 2] =
                                  EvCallback(added[IntOf(trace[p].line)], "return")
                            /\ IsRender(trace[p + 3])

C17_Witness ==
    /\ kind = "Menu"
    /\ pc = "await"
    /\ StartCount = 1
    /\ Len(menu_items) = 2
    /\ Len(Reads) = 2
    /\ Reads[2].num = 2
    /\ Reads[2].line = <<"2">>
    /\ [k \in DOMAIN Calls |-> Calls[k].num] = <<1, 2>>

(***************************************************************************)
(* C18: Menu.display returns normally only by reading 0, never after a     *)
(* nonzero input; and when the input channel does deliver a 0, a display() *)
(* waiting for input ends: it returns, unless before that a line was no    *)
(* integer or a callback raised an exception that leaves the loop.         *)
(***************************************************************************)
\* display() was left by an exception: input that is no integer, or a
\* callback that raised
LeftByException ==
    /\ pc = "raised"
    /\ HasRead
    /\ \/ ~IsInt(LastRead.line)
       \/ /\ AfterRead # <<>>
          /\ IsCallback(AfterRead[Len(AfterRead)])
          /\ AfterRead[Len(AfterRead)].text = exc

C18_ExitOnlyByZero ==
    /\ []((kind = "Menu" /\ pc = "done") => (HasRead /\ IsZero(LastRead)))
    /\ (pc = "await") ~> (pc = "done" \/ LeftByException)

C18_Witness ==
    /\ kind = "Menu"
    /\ pc = "done"
    /\ Len(Reads) = MaxReads + 1
    /\ IsZero(LastRead)
    /\ Len(Calls) >= 2

(***************************************************************************)
(* C19: the item sequence only grows.  Over every step (add_item,          *)
(* add_items, the builders, len, get_selection, the render inside          *)
(* display() and the loop iterations) the count never decreases, the items *)
(* present keep their index, display and payload, name and display_exit    *)
(* stay as they are; and a step that is no addition, with no callback that *)
(* touches the menu, leaves the item sequence as it is.                    *)
(***************************************************************************)
\* the step just taken is a call of add_item, add_items or of a builder
Adds ==
    /\ ret' # ret
    /\ ret'.op \in {"add_item", "add_items", "BasicMenu", "BasicOptionMenu"}

\* the step just taken invoked a callback that adds to the menu
TouchingCallback ==
    \E k \in (Len(trace) + 1)..Len(trace') :
        /\ IsCallback(trace'[k])
        /\ \E j \in DOMAIN menu_items :
               menu_items[j].id = trace'[k].num /\ menu_items[j].payload = "append"

C19_ItemsOnlyGrow ==
    [][/\ Len(menu_items') >= Len(menu_items)
       /\ SubSeq(menu_items', 1, Len(menu_items)) = menu_items
       /\ name' = name
       /\ display_exit' = display_exit
       /\ (~Adds /\ ~TouchingCallback) => menu_items' = menu_items]_vars

C19_Witness ==
    /\ pc = "done"
    /\ Len(menu_items) = MaxItems
    /\ Ids(menu_items) = added
    /\ \A j \in DOMAIN menu_items : menu_items[j].display # "N"
    /\ Len(Calls) >= 1
    /\ \E k \in DOMAIN trace : trace[k] = InvalidText

====
